---- MODULE Spec2Model ----
(***************************************************************************)
(* State-machine model of the streaming phase vocoder of src/src/lib.rs:   *)
(* PhaseVocoder::new and PhaseVocoder::process.                            *)
(*                                                                         *)
(* The numeric content of the signal path (window, FFT, phase arithmetic)  *)
(* is abstracted; the buffer bookkeeping is kept exactly:                  *)
(*   - an input sample is the number of its position in its channel's      *)
(*     stream (1, 2, 3, ...), so a queue's content shows which samples     *)
(*     were removed and from which end;                                    *)
(*   - an entry of output_accum (and then of out_buf and of an output      *)
(*     slice) is the number of `+=` contributions it has received;         *)
(*   - last_phase[chan][i] is the stream position of the first sample of   *)
(*     the analysis frame that last wrote it (0: never written);           *)
(*   - sum_phase[chan][i] is the number of `+=` it has received.           *)
(* process is split into the steps of its loops; pc is the position of the *)
(* running call ("idle": no call is running; "panic_assert", "panic_index" *)
(* and "panic_unwrap": the call has panicked, and the run ends there).     *)
(* channels >= 1 and time_res >= 1 throughout: new divides by time_res,    *)
(* and with no channel the while loop of process never ends.  At the sizes *)
(* modelled no usize operation wraps.                                      *)
(* A definition introduced as a "variant" is the definition after it with  *)
(* one fault injected; the properties below are checked to tell the two    *)
(* apart.                                                                  *)
(***************************************************************************)
EXTENDS Integers, Sequences, FiniteSets, TLC

\* ---------------------------------------------------------------- bounds
MaxChannels  == 2   \* channels is drawn from 1..MaxChannels
MaxRequested == 3   \* the frame_size passed to new is drawn from 0..MaxRequested
MaxTimeRes   == 2   \* time_res is drawn from 1..MaxTimeRes
MaxLen       == 2   \* an input or output slice holds 0..MaxLen samples
MaxSupplied  == 4   \* samples given to one channel over a run
ScenarioCalls == 2  \* calls of 4096 samples in the concrete scenario

VARIABLES
    \* struct PhaseVocoder
    channels, frame_size, time_res,
    samples_waiting, in_buf, out_buf, last_phase, sum_phase, output_accum,
    \* the running call of process: position, arguments, locals, result
    pc, slice_counts, out_slices, n_written, ret, sub_frame, chan,
    \* history: what was asked of the engine and what it did (requested is the
    \* frame_size given to new, which the engine does not keep: it is 0 from
    \* the first call of process on)
    requested, called, supplied, emitted, equal_in,
    enq_total, batches, total_batches, proc_calls, proc_args, sf_log

config  == <<channels, frame_size, time_res>>
engine  == <<samples_waiting, in_buf, out_buf, last_phase, sum_phase, output_accum>>
locals  == <<slice_counts, out_slices, n_written, ret, sub_frame, chan>>
history == <<requested, called, supplied, emitted, equal_in,
             enq_total, batches, total_batches, proc_calls, proc_args, sf_log>>
vars    == <<config, engine, pc, locals, history>>

\* ---------------------------------------------------------------- helpers
Min(a, b) == IF a < b THEN a ELSE b
Max(a, b) == IF a > b THEN a ELSE b

RECURSIVE SumSeq(_)
SumSeq(s) == IF s = <<>> THEN 0 ELSE Head(s) + SumSeq(Tail(s))

Chans == 1..channels

\* vec![x; n]
Repeat(x, n) == [i \in 1..n |-> x]

\* the queue without its first n entries (n pop_front calls; popping an empty
\* queue returns None and leaves it empty), and those entries
DropFront(q, n) == SubSeq(q, Min(n, Len(q)) + 1, Len(q))
TakeFront(q, n) == SubSeq(q, 1, Min(n, Len(q)))

\* ---------------------------------------------------------------- new
\* variant: the fallback is missing
FrameSizeNoFallback(req, tr) == (req \div tr) * tr
\* frame_size / time_res * time_res, falling back to time_res when that is 0
EffectiveFrameSize(req, tr) ==
    LET rounded == (req \div tr) * tr
    IN  IF rounded = 0 THEN tr ELSE rounded

New(ch, req, tr) ==
    /\ channels = ch
    /\ time_res = tr
    /\ frame_size = EffectiveFrameSize(req, tr)
    /\ samples_waiting = 0
    /\ in_buf = Repeat(<<>>, ch)
    /\ out_buf = Repeat(<<>>, ch)
    /\ last_phase = Repeat(Repeat(0, EffectiveFrameSize(req, tr)), ch)
    /\ sum_phase = Repeat(Repeat(0, EffectiveFrameSize(req, tr)), ch)
    /\ output_accum = Repeat(<<>>, ch)
    \* no call is running
    /\ pc = "idle"
    /\ slice_counts = <<>> /\ out_slices = <<>>
    /\ n_written = 0 /\ ret = 0 /\ sub_frame = 0 /\ chan = 1
    \* history
    /\ requested = req
    /\ called = FALSE
    /\ supplied = Repeat(0, ch)
    /\ emitted = Repeat(0, ch)
    /\ equal_in = TRUE
    /\ enq_total = 0 /\ batches = 0 /\ total_batches = 0
    /\ proc_calls = 0 /\ proc_args = <<>> /\ sf_log = <<>>

Init ==
    \E ch \in 1..MaxChannels, req \in 0..MaxRequested, tr \in 1..MaxTimeRes :
        New(ch, req, tr)

\* ---------------------------------------------------------------- process
\* step_size as usize
StepSize == frame_size \div time_res

\* variant: output.len() is not checked
AssertsHoldInputOnly(n_in, n_out) == n_in = channels
\* the two assert_eq! at the head of process; n_in and n_out are input.len()
\* and output.len()
AssertsHold(n_in, n_out) == n_in = channels /\ n_out = channels

\* the samples of a slice of n samples given to channel c
NewSamples(c, n) == [k \in 1..n |-> supplied[c] + k]

AllEqual(s) == \A i, j \in 1..Len(s) : s[i] = s[j]

\* Entry of process(input, output, processor): the asserts, then the enqueue
\* loop.  in holds the lengths of the slices of input, n_out is output.len();
\* the lengths of the output slices are first read by the drain loop, and the
\* model draws them there.
ProcessCall(in, n_out) ==
    /\ pc = "idle"
    /\ called' = TRUE
    /\ n_written' = 0 /\ ret' = 0 /\ sub_frame' = 0 /\ chan' = 1
    /\ batches' = 0 /\ proc_calls' = 0 /\ proc_args' = <<>> /\ sf_log' = <<>>
    /\ slice_counts' = <<Len(in), n_out>>
    /\ requested' = 0
    /\ UNCHANGED <<config, out_buf, last_phase, sum_phase, output_accum,
                   emitted, total_batches>>
    /\ IF ~AssertsHold(Len(in), n_out)
       THEN /\ pc' = "panic_assert"
            /\ UNCHANGED <<samples_waiting, in_buf, out_slices,
                           supplied, equal_in, enq_total>>
       ELSE /\ pc' = "while"
            /\ out_slices' = Repeat(<<>>, n_out)
            /\ in_buf' = [c \in Chans |-> in_buf[c] \o NewSamples(c, in[c])]
            /\ samples_waiting' = samples_waiting + SumSeq(in)
            /\ supplied' = [c \in Chans |-> supplied[c] + in[c]]
            /\ equal_in' = (equal_in /\ AllEqual(in))
            /\ enq_total' = samples_waiting + SumSeq(in)

\* the calls the model makes: as many slices as channels, one fewer or one
\* more, of input and of output; an input slice holds 0..MaxLen samples when
\* there is one per channel, and is empty otherwise
SliceCounts == {channels - 1, channels, channels + 1}
InputChoices ==
    [Chans -> 0..MaxLen] \cup {Repeat(0, n) : n \in SliceCounts}

Process ==
    \E in \in InputChoices, n_out \in SliceCounts :
        /\ \A c \in 1..Min(Len(in), channels) : supplied[c] + in[c] <= MaxSupplied
        /\ ProcessCall(in, n_out)

\* variants: > for >=, and a threshold of three frames
BatchConditionStrict == samples_waiting > 2 * frame_size * channels
BatchConditionThree == samples_waiting >= 3 * frame_size * channels
\* while self.samples_waiting >= 2 * self.frame_size * self.channels
BatchCondition == samples_waiting >= 2 * frame_size * channels

WhileCheck ==
    /\ pc = "while"
    /\ IF BatchCondition
       THEN pc' = "analysis"
       ELSE pc' = "drain"
    /\ sub_frame' = 0 /\ chan' = 1 /\ sf_log' = <<>>
    /\ UNCHANGED <<config, engine, slice_counts, out_slices, n_written, ret,
                   requested, called, supplied, emitted, equal_in,
                   enq_total, batches, total_batches, proc_calls, proc_args>>

\* variant: the processor is called inside the channel loop
AfterAnalysisPerChannel(c) == "processing"
\* where the sub-frame goes after the analysis of channel c: the next
\* channel's analysis, or the processor once every channel is analysed
AfterAnalysis(c) == IF c < channels THEN "analysis" ELSE "processing"

\* ANALYSIS of one channel: read frame_size samples from the front of the
\* input queue (samples[i] panics when i is past the end), set last_phase
Analysis ==
    /\ pc = "analysis"
    /\ sf_log' = Append(sf_log, <<"analysis", chan>>)
    /\ IF Len(in_buf[chan]) < frame_size
       THEN /\ pc' = "panic_index"
            /\ UNCHANGED <<last_phase, chan>>
       ELSE /\ last_phase' = [last_phase EXCEPT
                                 ![chan] = Repeat(Head(in_buf[chan]), frame_size)]
            /\ pc' = AfterAnalysis(chan)
            /\ chan' = IF AfterAnalysis(chan) = "analysis" THEN chan + 1 ELSE chan
    /\ UNCHANGED <<config, samples_waiting, in_buf, out_buf, sum_phase, output_accum,
                   slice_counts, out_slices, n_written, ret, sub_frame,
                   requested, called, supplied, emitted, equal_in, enq_total,
                   batches, total_batches, proc_calls, proc_args>>

\* PROCESSING: processor(self.channels, self.frame_size, ..)
Processing ==
    /\ pc = "processing"
    /\ proc_calls' = proc_calls + 1
    /\ proc_args' = <<channels, frame_size>>
    /\ sf_log' = Append(sf_log, <<"processor", 0>>)
    /\ pc' = "synthesis"
    /\ chan' = 1
    /\ UNCHANGED <<config, engine, slice_counts, out_slices, n_written, ret,
                   sub_frame, requested, called, supplied, emitted,
                   equal_in, enq_total, batches, total_batches>>

\* variant: a zero is pushed at every i
AccumulateAlwaysPush(acc) ==
    [i \in 1..(Len(acc) + frame_size) |->
        IF i <= frame_size THEN (IF i <= Len(acc) THEN acc[i] ELSE 0) + 1
        ELSE IF i <= Len(acc) THEN acc[i] ELSE 0]
\* the accumulate loop: for i in 0..frame_size, push a zero when i is the
\* length, then add the windowed sample to entry i
Accumulate(acc) ==
    [i \in 1..Max(Len(acc), frame_size) |->
        IF i <= frame_size
        THEN (IF i <= Len(acc) THEN acc[i] ELSE 0) + 1
        ELSE acc[i]]

\* SYNTHESIS of one channel up to and including the accumulate loop
Synthesis ==
    /\ pc = "synthesis"
    /\ sum_phase' = [sum_phase EXCEPT
                        ![chan] = [i \in 1..frame_size |-> sum_phase[chan][i] + 1]]
    /\ output_accum' = [output_accum EXCEPT ![chan] = Accumulate(output_accum[chan])]
    /\ sf_log' = Append(sf_log, <<"synthesis", chan>>)
    /\ pc' = "write_out"
    /\ UNCHANGED <<config, samples_waiting, in_buf, out_buf, last_phase,
                   slice_counts, out_slices, n_written, ret, sub_frame, chan,
                   requested, called, supplied, emitted, equal_in,
                   enq_total, batches, total_batches, proc_calls, proc_args>>

\* variant: the hop is a whole frame
HopInWholeFrame(q) == DropFront(q, frame_size)
\* the input queue after the hop of one sub-frame: step_size pop_front
HopIn(q) == DropFront(q, StepSize)

\* write out: step_size times, move the front of the accumulator to the
\* output queue (unwrap panics on an empty accumulator) and pop the input
WriteOut ==
    /\ pc = "write_out"
    /\ out_buf' = [out_buf EXCEPT
                      ![chan] = @ \o TakeFront(output_accum[chan], StepSize)]
    /\ output_accum' = [output_accum EXCEPT ![chan] = DropFront(@, StepSize)]
    /\ IF Len(output_accum[chan]) < StepSize
       THEN /\ pc' = "panic_unwrap"
            /\ in_buf' = [in_buf EXCEPT
                             ![chan] = DropFront(@, Len(output_accum[chan]))]
            /\ UNCHANGED <<chan, sub_frame, sf_log>>
       ELSE /\ in_buf' = [in_buf EXCEPT ![chan] = HopIn(@)]
            /\ IF chan < channels
               THEN /\ pc' = "synthesis"
                    /\ chan' = chan + 1
                    /\ sf_log' = Append(sf_log, <<"write_out", chan>>)
                    /\ UNCHANGED sub_frame
               ELSE /\ chan' = 1
                    /\ sub_frame' = sub_frame + 1
                    /\ sf_log' = <<>>
                    /\ pc' = IF sub_frame + 1 < time_res THEN "analysis"
                             ELSE "batch_end"
    /\ UNCHANGED <<config, samples_waiting, last_phase, sum_phase,
                   slice_counts, out_slices, n_written, ret,
                   requested, called, supplied, emitted, equal_in, enq_total,
                   batches, total_batches, proc_calls, proc_args>>

\* variant: two frames per channel are subtracted
DecrementTwice == samples_waiting - 2 * frame_size * channels
\* self.samples_waiting -= self.frame_size * self.channels
Decrement == samples_waiting - frame_size * channels

BatchEnd ==
    /\ pc = "batch_end"
    /\ samples_waiting' = Decrement
    /\ batches' = batches + 1
    /\ total_batches' = total_batches + 1
    /\ pc' = "while"
    /\ sub_frame' = 0
    /\ UNCHANGED <<config, in_buf, out_buf, last_phase, sum_phase, output_accum,
                   slice_counts, out_slices, n_written, ret, chan,
                   requested, called, supplied, emitted, equal_in, enq_total,
                   proc_calls, proc_args, sf_log>>

\* the number of samples the drain loop moves for channel c into a slice of
\* out[c] samples
Drained(out, c) == Min(out[c], Len(out_buf[c]))

\* the value returned for n_written samples written over all channels
ReturnValue(n) == n \div channels

\* pop samples from output queue: per channel, until the slice is full or the
\* queue is empty; then return n_written / self.channels.  out holds the
\* lengths of the slices of output.
DrainInto(out) ==
    /\ pc = "drain"
    /\ out_slices' = [c \in Chans |-> TakeFront(out_buf[c], out[c])]
    /\ out_buf' = [c \in Chans |-> DropFront(out_buf[c], out[c])]
    /\ emitted' = [c \in Chans |-> emitted[c] + Drained(out, c)]
    /\ n_written' = SumSeq([c \in Chans |-> Drained(out, c)])
    /\ ret' = ReturnValue(SumSeq([c \in Chans |-> Drained(out, c)]))
    /\ pc' = "returned"
    /\ UNCHANGED <<config, samples_waiting, in_buf, last_phase, sum_phase,
                   output_accum, slice_counts, sub_frame, chan,
                   requested, called, supplied, equal_in, enq_total,
                   batches, total_batches, proc_calls, proc_args, sf_log>>

Drain == \E out \in [Chans -> 0..MaxLen] : DrainInto(out)

\* The caller, after process has returned: the arguments and the result of
\* the call go out of scope, and the engine is ready for the next call.
CallerResumes ==
    /\ pc = "returned"
    /\ pc' = "idle"
    /\ slice_counts' = <<>> /\ out_slices' = <<>>
    /\ n_written' = 0 /\ ret' = 0
    /\ enq_total' = 0 /\ batches' = 0 /\ proc_calls' = 0 /\ proc_args' = <<>>
    /\ UNCHANGED <<config, engine, sub_frame, chan, sf_log,
                   requested, called, supplied, emitted, equal_in, total_batches>>

Next ==
    \/ Process
    \/ WhileCheck
    \/ Analysis
    \/ Processing
    \/ Synthesis
    \/ WriteOut
    \/ BatchEnd
    \/ Drain
    \/ CallerResumes

Spec == Init /\ [][Next]_vars

\* ---------------------------------------------------------------- scenario
\* The concrete scenario: channels = 1, frame_size = 1024, time_res = 4, and
\* calls of process that each feed 4096 samples.
InitScenario == New(1, 1024, 4)

ScenarioCall ==
    /\ supplied[1] < ScenarioCalls * 4096
    /\ ProcessCall(<<4096>>, 1)

ScenarioDrain == \E cap \in {0, 1024, 4096} : DrainInto(<<cap>>)

NextScenario ==
    \/ ScenarioCall
    \/ WhileCheck
    \/ Analysis
    \/ Processing
    \/ Synthesis
    \/ WriteOut
    \/ BatchEnd
    \/ ScenarioDrain
    \/ CallerResumes

SpecScenario == InitScenario /\ [][NextScenario]_vars

\* ---------------------------------------------------------------- claims
Threshold == 2 * frame_size * channels

IsPrefix(s, t) == Len(s) <= Len(t) /\ \A i \in 1..Len(s) : s[i] = t[i]

\* a call has returned and the caller holds its result
Returned == pc = "returned"

\* C1: the value process returns is the number of samples written into each
\* channel's output slice, the same for every channel, whatever the lengths
\* of the slices.
C1_ReturnIsPerChannelCount ==
    Returned => \A c \in Chans : Len(out_slices[c]) = ret

\* C2 (as claimed): with equal-length input for every channel in every call
\* and everything produced drained, after every call supplied - emitted is at
\* most frame_size.
C2_LatencyAtMostOneFrame ==
    (Returned /\ equal_in /\ \A c \in Chans : out_buf[c] = <<>>)
        => \A c \in Chans : supplied[c] - emitted[c] <= frame_size

\* C2 (amended): under the same conditions supplied - emitted is the length of
\* the channel's input queue, and is less than two frames.
C2_LatencyBelowTwoFrames ==
    (Returned /\ equal_in /\ \A c \in Chans : out_buf[c] = <<>>)
        => \A c \in Chans :
              /\ supplied[c] - emitted[c] = Len(in_buf[c])
              /\ supplied[c] - emitted[c] < 2 * frame_size

C2_Witness ==
    /\ Returned /\ equal_in /\ \A c \in Chans : out_buf[c] = <<>>
    /\ channels = 2 /\ frame_size = 2
    /\ \A c \in Chans : emitted[c] = frame_size /\ supplied[c] = 2 * frame_size

\* C3: at the analysis read of every sub-frame the channel's input queue
\* holds at least frame_size samples, for input slices of any lengths.
C3_NoUnderrun ==
    pc = "analysis" => Len(in_buf[chan]) >= frame_size

\* C4 (as claimed): in the scenario, the call that feeds the first 4096
\* samples runs exactly one batch and returns with samples_waiting < 2*1024.
C4_ExactlyOneBatch ==
    (Returned /\ supplied = <<4096>>)
        => batches = 1 /\ samples_waiting < 2 * 1024

\* C4 (amended): that call runs exactly three batches, twelve sub-frames, and
\* returns with samples_waiting = 1024, which is below 2*1024.
C4_ExactlyThreeBatches ==
    (Returned /\ supplied = <<4096>>)
        => /\ batches = 3
           /\ proc_calls = 3 * time_res
           /\ samples_waiting = 1024
           /\ samples_waiting < 2 * 1024

C4_Witness ==
    /\ Returned /\ supplied = <<4096>> /\ batches = 3
    /\ channels = 1 /\ frame_size = 1024 /\ time_res = 4
    /\ Len(out_slices[1]) = 3 * 1024

\* C5: a batch runs only while samples_waiting >= 2 * frame_size * channels:
\* process returns with samples_waiting below that threshold, a call whose
\* enqueued total is below it runs no batch, and one that reaches it runs one.
C5_BatchCondition ==
    /\ pc \in {"idle", "drain", "returned"} => samples_waiting < Threshold
    /\ pc \in {"analysis", "processing", "synthesis", "write_out", "batch_end"}
          => samples_waiting >= Threshold
    /\ (pc \in {"while", "drain", "returned"} /\ enq_total < Threshold)
          => batches = 0
    /\ (pc \in {"drain", "returned"} /\ enq_total >= Threshold) => batches >= 1

C5_Witness ==
    Returned /\ enq_total = Threshold - 1 /\ batches = 0 /\ total_batches >= 1

\* C6: the processor is invoked once per sub-frame (time_res times per batch,
\* never in a call without a batch), with (channels, frame_size), after the
\* analysis of every channel and before the synthesis and hop of any channel.
ExpectedLog ==
    [c \in Chans |-> <<"analysis", c>>]
        \o <<(<<"processor", 0>>)>>
        \o [k \in 1..(2 * channels) |->
               IF k % 2 = 1 THEN <<"synthesis", (k + 1) \div 2>>
               ELSE <<"write_out", k \div 2>>]

ProcessorInLog == Cardinality({i \in 1..Len(sf_log) : sf_log[i][1] = "processor"})

C6_ProcessorOncePerSubFrame ==
    /\ IsPrefix(sf_log, ExpectedLog)
    /\ proc_calls = batches * time_res + sub_frame + ProcessorInLog
    /\ pc \in {"idle", "while", "drain", "returned", "batch_end"}
          => sub_frame \in {0, time_res} /\ sf_log = <<>>
    /\ proc_calls > 0 => proc_args = <<channels, frame_size>>
    /\ (Returned /\ batches = 0) => proc_calls = 0

C6_Witness ==
    /\ pc = "synthesis" /\ chan = 1 /\ channels = 2 /\ time_res = 2
    /\ sub_frame = 1 /\ proc_calls = 2
    /\ sf_log = <<(<<"analysis", 1>>), (<<"analysis", 2>>), (<<"processor", 0>>)>>

\* C7: a call whose number of input or output slices differs from channels
\* panics before any engine state is modified; any other call goes on.
C7_FailFastBeforeAnyChange ==
    [][(pc = "idle" /\ pc' # "idle")
          => IF slice_counts' # <<channels, channels>>
             THEN pc' = "panic_assert" /\ UNCHANGED <<config, engine>>
             ELSE pc' = "while"]_vars

C7_Witness ==
    /\ pc = "panic_assert" /\ slice_counts = <<channels, channels + 1>>
    /\ samples_waiting > 0 /\ total_batches > 0

\* C8: new sets frame_size to floor(requested / time_res) * time_res, or to
\* time_res when that is 0, without an error; frame_size >= time_res and
\* frame_size % time_res = 0 always hold, every phase array has frame_size
\* entries, and samples_waiting and the queues start at zero and empty.
C8_Construction ==
    /\ frame_size >= time_res
    /\ frame_size % time_res = 0
    /\ Len(last_phase) = channels /\ Len(sum_phase) = channels
    /\ \A c \in Chans : Len(last_phase[c]) = frame_size
                        /\ Len(sum_phase[c]) = frame_size
    /\ ~called =>
          /\ pc = "idle"
          /\ frame_size = IF (requested \div time_res) * time_res = 0
                          THEN time_res
                          ELSE requested - (requested % time_res)
          /\ samples_waiting = 0
          /\ \A c \in Chans : /\ in_buf[c] = <<>>
                              /\ out_buf[c] = <<>>
                              /\ output_accum[c] = <<>>

C8_Witness ==
    ~called /\ requested = 3 /\ time_res = 2 /\ frame_size = 2

\* C9: every completed batch removes exactly frame_size samples from the
\* front of every channel's input queue, appends exactly frame_size samples to
\* every channel's output queue and lowers samples_waiting by
\* frame_size * channels; with equal-length input slices, between calls
\* samples_waiting is the sum of the input queues' lengths, which are equal.
C9_Lockstep ==
    /\ pc \in {"idle", "while", "drain", "returned"} =>
          /\ \A c \in Chans :
                /\ in_buf[c] = [k \in 1..(supplied[c] - total_batches * frame_size)
                                   |-> total_batches * frame_size + k]
                /\ emitted[c] + Len(out_buf[c]) = total_batches * frame_size
          /\ samples_waiting =
                SumSeq(supplied) - total_batches * frame_size * channels
    /\ (pc \in {"idle", "returned"} /\ equal_in) =>
          /\ samples_waiting = SumSeq([c \in Chans |-> Len(in_buf[c])])
          /\ \A c, d \in Chans : Len(in_buf[c]) = Len(in_buf[d])

C9_Witness ==
    /\ Returned /\ equal_in /\ channels = 2 /\ time_res = 2 /\ batches = 1
    /\ samples_waiting = frame_size * channels

\* C10: the accumulator never holds more than frame_size entries: the
\* accumulate step extends it to exactly frame_size, the hop then pops
\* frame_size / time_res of them (never from an empty accumulator), so between
\* sub-frames it holds no entry before the channel's first sub-frame and
\* frame_size - frame_size / time_res afterwards.
C10_AccumulatorLength ==
    /\ pc # "panic_unwrap"
    /\ \A c \in Chans :
          /\ Len(output_accum[c]) <= frame_size
          /\ Len(output_accum[c]) =
                IF pc = "write_out" /\ chan = c THEN frame_size
                ELSE IF sum_phase[c][1] = 0 THEN 0
                ELSE frame_size - StepSize

C10_Witness ==
    /\ pc = "write_out" /\ time_res = 2 /\ sub_frame = 1 /\ chan = channels
    /\ channels = 2
    /\ \A c \in Chans : sum_phase[c][1] = 2
    /\ Len(output_accum[1]) = frame_size - StepSize
    /\ Len(output_accum[2]) = frame_size

====
